---- MODULE Spec2Model ----
(***************************************************************************)
(* Model of the news pipeline of Pipeline.ipynb (first code cell):         *)
(* fetch -> process -> store, driven once by main or forever by            *)
(* run_periodically.                                                       *)
(*                                                                         *)
(* The program is single threaded.  Every statement that can raise is a    *)
(* step of its own, so that each exit path of fetch, process and store is  *)
(* a path of the model.  Writes to standard output (print) are taken as    *)
(* total: they append to the log and never raise.                          *)
(*                                                                         *)
(* The SQLite database is modelled as the committed rows of table news     *)
(* (news), the rows of the open transaction (txn) and the state of the     *)
(* connection (conn).  A data frame is a sequence of rows, each row the    *)
(* tuple of its ten values in the order of `columns`.                      *)
(***************************************************************************)
EXTENDS Integers, Sequences, FiniteSets, TLC

(***************************************************************************)
(* Bounds of the model.                                                    *)
(***************************************************************************)
\* longest list of article records a response holds
MaxBatch == 2
\* rows the database file can hold before an append fails (disk full)
MaxRows == 2
\* calendar days are 0 .. MaxDay
MaxDay == 1

(***************************************************************************)
(* Program constants.                                                      *)
(***************************************************************************)
\* line 83: the ten attributes of an article, in column order
columns ==
  << "author", "title", "description", "url", "source",
     "image", "category", "language", "country", "published_at" >>

\* line 176: the interval of the periodic run
interval_seconds == 86400

\* line 116: the only status taken as success
HTTP_OK == 200

NCols == Len(columns)
ColSet == { columns[j] : j \in 1..NCols }

\* Python's None / SQL NULL / a missing cell of the data frame
Null == "<None>"

(***************************************************************************)
(* Inputs: raw article records as the API sends them.                      *)
(***************************************************************************)
\* a record with every schema key and one key outside the schema
RawFull ==
  [ k \in ColSet \cup {"id"} |->
      IF k = "author" THEN Null
      ELSE IF k = "image" THEN ""
      ELSE IF k = "id" THEN "77"
      ELSE "a" ]

\* a record without the image key
RawNoImage ==
  [ k \in ColSet \ {"image"} |-> IF k = "title" THEN "t2" ELSE "b" ]

\* the articles the API has, newest first: the two records in turn
Feed(i) == IF i % 2 = 1 THEN RawFull ELSE RawNoImage

\* the lists a response holds under "data": up to MaxBatch successive
\* articles, from the first or from the second on
DataLists ==
  { [ i \in 1..n |-> Feed(a + i - 1) ] : a \in 1..2, n \in 0..MaxBatch }

Days == 0..MaxDay

\* HTTP statuses the server answers with
Statuses == { HTTP_OK, 429 }

\* What the network does with the one GET of fetch: the transport fails
\* (requests.get raises a RequestException), or a response arrives with a
\* status and a body.  A body either does not parse as JSON, or is a JSON
\* object with or without the members "error" and "data".
NoBody == [ parses |-> FALSE, hasError |-> FALSE, hasData |-> FALSE, data |-> << >> ]

Bodies ==
  { NoBody }
  \cup { [ parses |-> TRUE, hasError |-> TRUE, hasData |-> FALSE, data |-> << >> ] }
  \cup { [ parses |-> TRUE, hasError |-> FALSE, hasData |-> FALSE, data |-> << >> ] }
  \cup { [ parses |-> TRUE, hasError |-> FALSE, hasData |-> TRUE, data |-> l ] : l \in DataLists }

NetOutcomes ==
  { [ up |-> FALSE, status |-> 0, body |-> NoBody ] }
  \cup { [ up |-> TRUE, status |-> s, body |-> b ] : s \in Statuses, b \in Bodies }

(***************************************************************************)
(* Exceptions.                                                             *)
(***************************************************************************)
NoExc == [ type |-> "none", kind |-> "none", status |-> 0 ]

\* raise SystemExit(...) of fetch, lines 99, 113, 118, 123
SysExit(kind, status) == [ type |-> "SystemExit", kind |-> kind, status |-> status ]

\* any exception that is not a SystemExit
Other(kind) == [ type |-> "Exception", kind |-> kind, status |-> 0 ]

FatalKinds == { "Configuration", "Transport", "Protocol", "Application" }

VARIABLES
  mode,        \* "single": __main__ calls main(); "loop": run_periodically
  jsonErrIsRequestException,
               \* the installed requests raises its own JSONDecodeError (a
               \* RequestException, requests >= 2.27) from response.json(),
               \* or the json module's ValueError (older requests)
  pc,          \* the statement the program is at
  today,       \* the calendar date of datetime.now()
  exc,         \* the exception in flight
  result,      \* fetch's return value in main
  df,          \* the data frame in main and store
  conn,        \* "none", "open", "closed": the sqlite3 connection of store
  tableExists, \* table news exists in news.db
  news,        \* committed rows of table news
  txn,         \* rows inserted by the open transaction
  backup,      \* the files news_<date>.csv, by date
  log,         \* lines printed by the current run
  reqs,        \* HTTP requests issued by the current run
  called,      \* functions main has called in the current run
  news0,       \* news when the current run started
  backup0,     \* backup when the current run started
  writeFailed, \* to_sql or commit raised in the current run
  csvWrites,   \* to_csv calls of the current run
  csvDay,      \* the date the current run's to_csv named its file for
  keySeen,     \* "unread", "set", "unset": what os.getenv("API_KEY") gave the current run
  respStatus,  \* status of the response the current run received, 0 if none
  outcome,     \* how the current run ended
  committedRows,
               \* sum of the sizes of the data frames committed so far
  sleeps,      \* sleeps since the last run ended
  slept        \* seconds spent in those sleeps

vars ==
  << mode, jsonErrIsRequestException, pc, today, exc, result, df, conn,
     tableExists, news, txn, backup, log, reqs, called, news0, backup0,
     writeFailed, csvWrites, csvDay, keySeen, respStatus, outcome, committedRows,
     sleeps, slept >>

\* the variables of the environment and of the stores
env == << mode, jsonErrIsRequestException, today >>
db == << tableExists, news, txn, conn >>
hist ==
  << reqs, called, news0, backup0, writeFailed, csvWrites, csvDay, keySeen,
     respStatus, sleeps, slept >>

NoFile == [ exists |-> FALSE, header |-> << >>, rows |-> << >> ]
NoResult == NoBody

Init ==
  /\ mode \in { "single", "loop" }
  /\ jsonErrIsRequestException \in BOOLEAN
  /\ pc = "idle"
  /\ today = 0
  /\ exc = NoExc
  /\ result = NoResult
  /\ df = << >>
  /\ conn = "none"
  /\ tableExists = FALSE
  /\ news = << >>
  /\ txn = << >>
  /\ backup = [ d \in Days |-> NoFile ]
  /\ log = << >>
  /\ reqs = 0
  /\ called = {}
  /\ news0 = << >>
  /\ backup0 = [ d \in Days |-> NoFile ]
  /\ writeFailed = FALSE
  /\ csvWrites = 0
  /\ csvDay = 0
  /\ keySeen = "unread"
  /\ respStatus = 0
  /\ outcome = "none"
  /\ committedRows = 0
  /\ sleeps = 0
  /\ slept = 0

(***************************************************************************)
(* Pure functions.                                                         *)
(***************************************************************************)
\* fetch with the request sent before the key is looked at
fetch_request_first(key, net, jsonReqExc) ==
  IF ~key
    THEN [ reqs |-> 1, status |-> 0, log |-> << "no_key" >>,
           raise |-> SysExit("Configuration", 0), result |-> NoResult ]
  ELSE IF ~net.up
    THEN [ reqs |-> 1, status |-> 0, log |-> << "collecting", "conn_error" >>,
           raise |-> SysExit("Transport", 0), result |-> NoResult ]
  ELSE IF ~net.body.parses \/ net.status # HTTP_OK \/ net.body.hasError
    THEN [ reqs |-> 1, status |-> net.status, log |-> << "collecting", "http_error" >>,
           raise |-> SysExit("Protocol", net.status), result |-> NoResult ]
  ELSE [ reqs |-> 1, status |-> net.status, log |-> << "collecting", "collected" >>,
         raise |-> NoExc, result |-> net.body ]

\* fetch(), lines 90-126, as a function of what load_dotenv/os.getenv give
\* (key: an API key is set), of what the network does (net) and of the
\* class of the error response.json() raises (jsonReqExc).  It yields the
\* number of requests issued, the lines printed, the exception raised
\* (NoExc when fetch returns) and the value returned.
fetch(key, net, jsonReqExc) ==
  IF ~key
    THEN [ reqs |-> 0, status |-> 0, log |-> << "no_key" >>,
           raise |-> SysExit("Configuration", 0), result |-> NoResult ]
  ELSE IF ~net.up
    THEN [ reqs |-> 1, status |-> 0, log |-> << "collecting", "conn_error" >>,
           raise |-> SysExit("Transport", 0), result |-> NoResult ]
  ELSE IF ~net.body.parses
    THEN IF jsonReqExc
           THEN [ reqs |-> 1, status |-> net.status,
                  log |-> << "collecting", "conn_error" >>,
                  raise |-> SysExit("Transport", 0), result |-> NoResult ]
           ELSE [ reqs |-> 1, status |-> net.status, log |-> << "collecting" >>,
                  raise |-> Other("JSONDecodeError"), result |-> NoResult ]
  ELSE IF net.status # HTTP_OK
    THEN [ reqs |-> 1, status |-> net.status, log |-> << "collecting", "http_error" >>,
           raise |-> SysExit("Protocol", net.status), result |-> NoResult ]
  ELSE IF net.body.hasError
    THEN [ reqs |-> 1, status |-> net.status, log |-> << "collecting", "api_error" >>,
           raise |-> SysExit("Application", 0), result |-> NoResult ]
  ELSE [ reqs |-> 1, status |-> net.status, log |-> << "collecting", "collected" >>,
         raise |-> NoExc, result |-> net.body ]

\* process that drops the records that lack one of the columns
process_dropna(data) ==
  LET whole == SelectSeq(data, LAMBDA r : \A j \in 1..NCols : columns[j] \in DOMAIN r)
  IN  [ i \in 1..Len(whole) |-> [ j \in 1..NCols |-> whole[i][columns[j]] ] ]

\* process(result), lines 129-132: DataFrame.from_records(data, columns=columns)
process(data) ==
  [ i \in 1..Len(data) |->
      [ j \in 1..NCols |->
          IF columns[j] \in DOMAIN data[i] THEN data[i][columns[j]] ELSE Null ] ]

\* a cell as to_csv writes it: a missing value becomes the empty field
CsvField(v) == IF v = Null THEN "" ELSE v

\* to_csv with header=False
to_csv_no_header(d) ==
  [ exists |-> TRUE, header |-> << >>,
    rows |-> [ i \in 1..Len(d) |-> [ j \in 1..NCols |-> CsvField(d[i][j]) ] ] ]

\* df.to_csv(name, index=False), line 154: the header and one line per row
to_csv(d) ==
  [ exists |-> TRUE, header |-> columns,
    rows |-> [ i \in 1..Len(d) |-> [ j \in 1..NCols |-> CsvField(d[i][j]) ] ] ]

\* what a to_csv that raises can leave of the file it was writing: nothing
\* changed (the open failed), an empty file, or the header and the first rows
FailedCsv(old, d) ==
  { old, [ exists |-> TRUE, header |-> << >>, rows |-> << >> ] }
  \cup { [ exists |-> TRUE, header |-> columns, rows |-> SubSeq(to_csv(d).rows, 1, k) ] :
           k \in 0..(Len(d) - 1) }

\* how a run that leaves main with exception e is classed
Ended(e) == IF e.type = "SystemExit" THEN "Aborted" ELSE "Crashed"

(***************************************************************************)
(* main, lines 159-162.                                                    *)
(***************************************************************************)
\* main() is called (line 174, or line 167 in the loop): a new run starts.
\* The record of the run starts empty, but for the stores as the run finds
\* them.
main_call ==
  /\ pc = "idle"
  /\ pc' = "fetch"
  /\ news0' = news
  /\ backup0' = backup
  /\ outcome' = "none"
  /\ sleeps' = 0
  /\ slept' = 0
  /\ UNCHANGED << env, committedRows, db, exc, result, df, backup, log, reqs, called, writeFailed,
                  csvWrites, csvDay, keySeen, respStatus >>

\* main with a fetch that prints its error and returns an empty response
\* in place of raising
main_fetch_returns_on_error ==
  /\ pc = "fetch"
  /\ \E key \in BOOLEAN, net \in NetOutcomes :
       LET f == fetch(key, net, jsonErrIsRequestException)
       IN  /\ reqs' = reqs + f.reqs
           /\ keySeen' = IF key THEN "set" ELSE "unset"
           /\ respStatus' = f.status
           /\ log' = log \o f.log
           /\ exc' = NoExc
           /\ result' = IF f.raise = NoExc THEN f.result
                        ELSE [ parses |-> TRUE, hasError |-> FALSE,
                               hasData |-> TRUE, data |-> << >> ]
           /\ pc' = "process"
           /\ outcome' = IF f.raise = NoExc THEN outcome ELSE "Aborted"
  /\ called' = called \cup { "fetch" }
  /\ UNCHANGED << env, committedRows, db, df, backup, news0, backup0, writeFailed,
                  csvWrites, csvDay, sleeps, slept >>

\* line 160: result = fetch()
main_fetch ==
  /\ pc = "fetch"
  /\ \E key \in BOOLEAN, net \in NetOutcomes :
       LET f == fetch(key, net, jsonErrIsRequestException)
       IN  /\ reqs' = reqs + f.reqs
           /\ keySeen' = IF key THEN "set" ELSE "unset"
           /\ respStatus' = f.status
           /\ log' = log \o f.log
           /\ exc' = f.raise
           /\ result' = f.result
           /\ IF f.raise = NoExc
                THEN /\ pc' = "process"
                     /\ outcome' = outcome
                ELSE /\ pc' = "main_end"
                     /\ outcome' = Ended(f.raise)
  /\ called' = called \cup { "fetch" }
  /\ UNCHANGED << env, committedRows, db, df, backup, news0, backup0, writeFailed,
                  csvWrites, csvDay, sleeps, slept >>

\* line 161: df = process(result)
main_process ==
  /\ pc = "process"
  /\ called' = called \cup { "process" }
  /\ IF result.hasData
       THEN /\ df' = process(result.data)
            /\ pc' = "connect"
            /\ UNCHANGED << exc, outcome >>
       ELSE /\ exc' = Other("KeyError")
            /\ pc' = "main_end"
            /\ outcome' = "Crashed"
            /\ df' = df
  /\ UNCHANGED << env, committedRows, db, result, backup, log, reqs, news0, backup0, writeFailed,
                  csvWrites, csvDay, keySeen, respStatus, sleeps, slept >>

(***************************************************************************)
(* store, lines 134-157 (line 162: store(df)).                             *)
(***************************************************************************)
\* line 136: conn = sqlite3.connect(DB_FILE)
store_connect ==
  /\ pc = "connect"
  /\ called' = called \cup { "store" }
  /\ \E ok \in BOOLEAN :
       IF ok
         THEN /\ conn' = "open"
              /\ pc' = "create"
              /\ UNCHANGED << exc, outcome >>
         ELSE /\ exc' = Other("sqlite3.Error")
              /\ pc' = "main_end"
              /\ outcome' = "Crashed"
              /\ conn' = conn
  /\ UNCHANGED << env, committedRows, tableExists, news, txn, result, df, backup, log, reqs, news0,
                  backup0, writeFailed, csvWrites, csvDay, keySeen, respStatus, sleeps, slept >>

\* lines 139-141: CREATE TABLE IF NOT EXISTS news (...), outside the try
store_create ==
  /\ pc = "create"
  /\ \E ok \in BOOLEAN :
       IF ok
         THEN /\ tableExists' = TRUE
              /\ pc' = "begin"
              /\ UNCHANGED << exc, outcome >>
         ELSE /\ exc' = Other("sqlite3.Error")
              /\ pc' = "main_end"
              /\ outcome' = "Crashed"
              /\ tableExists' = tableExists
  /\ UNCHANGED << env, committedRows, conn, news, txn, result, df, backup, log, called, reqs, news0,
                  backup0, writeFailed, csvWrites, csvDay, keySeen, respStatus, sleeps, slept >>

\* lines 144-145: print "Saving into the database...", conn.execute('BEGIN'),
\* outside the try
store_begin ==
  /\ pc = "begin"
  /\ log' = Append(log, "saving")
  /\ \E ok \in BOOLEAN :
       IF ok
         THEN /\ pc' = "to_sql"
              /\ UNCHANGED << exc, outcome >>
         ELSE /\ exc' = Other("sqlite3.Error")
              /\ pc' = "main_end"
              /\ outcome' = "Crashed"
  /\ UNCHANGED << env, committedRows, db, result, df, backup, called, reqs, news0,
                  backup0, writeFailed, csvWrites, csvDay, keySeen, respStatus, sleeps, slept >>

\* to_sql on a connection in autocommit mode: every row inserted is
\* committed at once
store_to_sql_autocommit ==
  /\ pc = "to_sql"
  /\ \/ /\ Len(news) + Len(txn) + Len(df) <= MaxRows
        /\ news' = news \o df
        /\ pc' = "commit"
        /\ UNCHANGED << exc, writeFailed >>
     \/ /\ \E k \in 0..Len(df) :
             /\ k < Len(df) \/ k = 0
             /\ Len(news) + Len(txn) + k <= MaxRows
             /\ news' = news \o SubSeq(df, 1, k)
        /\ exc' = Other("to_sql")
        /\ writeFailed' = TRUE
        /\ pc' = "except"
  /\ UNCHANGED << env, committedRows, conn, tableExists, txn, result, df, backup, log, called, reqs,
                  news0, backup0, csvWrites, csvDay, keySeen, respStatus, outcome,
                  sleeps, slept >>

\* to_sql that skips the rows the table already holds
store_to_sql_dedup ==
  /\ pc = "to_sql"
  /\ \/ /\ Len(news) + Len(txn) + Len(df) <= MaxRows
        /\ txn' = txn \o SelectSeq(df, LAMBDA r : \A i \in 1..Len(news) : news[i] # r)
        /\ pc' = "commit"
        /\ UNCHANGED << exc, writeFailed >>
     \/ /\ \E k \in 0..Len(df) :
             /\ k < Len(df) \/ k = 0
             /\ Len(news) + Len(txn) + k <= MaxRows
             /\ txn' = txn \o SubSeq(df, 1, k)
        /\ exc' = Other("to_sql")
        /\ writeFailed' = TRUE
        /\ pc' = "except"
  /\ UNCHANGED << env, committedRows, conn, tableExists, news, result, df, backup, log, called, reqs,
                  news0, backup0, csvWrites, csvDay, keySeen, respStatus, outcome, sleeps, slept >>

\* line 147: df.to_sql('news', con=conn, if_exists="append", index=False).
\* The rows go into the open transaction.  The append fails when the rows do
\* not fit the database file, and it can fail for any other reason, after
\* some of the rows were inserted.
store_to_sql ==
  /\ pc = "to_sql"
  /\ \/ /\ Len(news) + Len(txn) + Len(df) <= MaxRows
        /\ txn' = txn \o df
        /\ pc' = "commit"
        /\ UNCHANGED << exc, writeFailed >>
     \/ /\ \E k \in 0..Len(df) :
             /\ k < Len(df) \/ k = 0
             /\ Len(news) + Len(txn) + k <= MaxRows
             /\ txn' = txn \o SubSeq(df, 1, k)
        /\ exc' = Other("to_sql")
        /\ writeFailed' = TRUE
        /\ pc' = "except"
  /\ UNCHANGED << env, committedRows, conn, tableExists, news, result, df, backup, log, called, reqs,
                  news0, backup0, csvWrites, csvDay, keySeen, respStatus, outcome, sleeps, slept >>

\* store with the to_csv after the commit as well: the backup is written
\* whether or not the commit failed
store_commit_and_backup ==
  /\ pc = "commit"
  /\ \/ /\ news' = news \o txn
        /\ txn' = << >>
        /\ log' = Append(log, "saved")
        /\ committedRows' = committedRows + Len(df)
        /\ backup' = [ backup EXCEPT ![today] = to_csv(df) ]
        /\ csvWrites' = csvWrites + 1
        /\ pc' = "finally"
        /\ UNCHANGED << exc, writeFailed >>
     \/ /\ exc' = Other("commit")
        /\ writeFailed' = TRUE
        /\ pc' = "except"
        /\ UNCHANGED << news, txn, log, committedRows, backup, csvWrites >>
  /\ UNCHANGED << env, conn, tableExists, result, df, called, reqs,
                  news0, backup0, csvDay, keySeen, respStatus, outcome, sleeps, slept >>

\* store that prints "News saved successfully" before conn.commit()
store_commit_print_first ==
  /\ pc = "commit"
  /\ log' = Append(log, "saved")
  /\ \/ /\ news' = news \o txn
        /\ txn' = << >>
        /\ committedRows' = committedRows + Len(df)
        /\ pc' = "finally"
        /\ UNCHANGED << exc, writeFailed >>
     \/ /\ exc' = Other("commit")
        /\ writeFailed' = TRUE
        /\ pc' = "except"
        /\ UNCHANGED << news, txn, committedRows >>
  /\ UNCHANGED << env, conn, tableExists, result, df, backup, called, reqs,
                  news0, backup0, csvWrites, csvDay, keySeen, respStatus, outcome, sleeps, slept >>

\* store whose try block can raise after conn.commit() has taken effect
store_commit_raises_late ==
  /\ pc = "commit"
  /\ \/ /\ news' = news \o txn
        /\ txn' = << >>
        /\ committedRows' = committedRows + Len(df)
        /\ \/ /\ log' = Append(log, "saved")
              /\ pc' = "finally"
              /\ UNCHANGED << exc, writeFailed >>
           \/ /\ exc' = Other("print")
              /\ writeFailed' = TRUE
              /\ pc' = "except"
              /\ UNCHANGED log
     \/ /\ exc' = Other("commit")
        /\ writeFailed' = TRUE
        /\ pc' = "except"
        /\ UNCHANGED << news, txn, log, committedRows >>
  /\ UNCHANGED << env, conn, tableExists, result, df, backup, called, reqs,
                  news0, backup0, csvWrites, csvDay, keySeen, respStatus, outcome, sleeps, slept >>

\* lines 148-149: conn.commit(), print "News saved successfully"
store_commit ==
  /\ pc = "commit"
  /\ \/ /\ news' = news \o txn
        /\ txn' = << >>
        /\ log' = Append(log, "saved")
        /\ committedRows' = committedRows + Len(df)
        /\ pc' = "finally"
        /\ UNCHANGED << exc, writeFailed >>
     \/ /\ exc' = Other("commit")
        /\ writeFailed' = TRUE
        /\ pc' = "except"
        /\ UNCHANGED << news, txn, log, committedRows >>
  /\ UNCHANGED << env, conn, tableExists, result, df, backup, called, reqs,
                  news0, backup0, csvWrites, csvDay, keySeen, respStatus, outcome, sleeps, slept >>

\* store with to_csv(..., mode="a"): the rows are added to the file of the
\* date when there is one
store_except_append_csv ==
  /\ pc = "except"
  /\ txn' = << >>
  /\ \/ /\ backup' = [ backup EXCEPT ![today] =
                         IF backup[today].exists
                           THEN [ exists |-> TRUE, header |-> backup[today].header,
                                  rows |-> backup[today].rows \o to_csv(df).rows ]
                           ELSE to_csv(df) ]
        /\ log' = log \o << "exc_text", "save_failed", "saved_csv" >>
        /\ exc' = NoExc
     \/ /\ \E f \in FailedCsv(backup[today], df) :
             backup' = [ backup EXCEPT ![today] = f ]
        /\ log' = log \o << "exc_text", "save_failed" >>
        /\ exc' = Other("OSError")
  /\ csvWrites' = csvWrites + 1
  /\ csvDay' = today
  /\ pc' = "finally"
  /\ UNCHANGED << env, committedRows, conn, tableExists, news, result, df, called, reqs, news0,
                  backup0, writeFailed, keySeen, respStatus, outcome, sleeps, slept >>

\* lines 150-155: except Exception: print(e), print "Failed to save ...",
\* conn.rollback(), df.to_csv("news_<date>.csv"), print "News saved to CSV"
store_except ==
  /\ pc = "except"
  /\ txn' = << >>
  /\ \/ /\ backup' = [ backup EXCEPT ![today] = to_csv(df) ]
        /\ log' = log \o << "exc_text", "save_failed", "saved_csv" >>
        /\ exc' = NoExc
     \/ /\ \E f \in FailedCsv(backup[today], df) :
             backup' = [ backup EXCEPT ![today] = f ]
        /\ log' = log \o << "exc_text", "save_failed" >>
        /\ exc' = Other("OSError")
  /\ csvWrites' = csvWrites + 1
  /\ csvDay' = today
  /\ pc' = "finally"
  /\ UNCHANGED << env, committedRows, conn, tableExists, news, result, df, called, reqs, news0,
                  backup0, writeFailed, keySeen, respStatus, outcome, sleeps, slept >>

\* lines 156-157: finally: conn.close(); then store returns or the exception
\* of the except block goes on
store_finally ==
  /\ pc = "finally"
  /\ conn' = "closed"
  /\ txn' = << >>
  /\ pc' = "main_end"
  /\ outcome' = IF exc # NoExc THEN "Crashed"
                ELSE IF writeFailed THEN "BackedUp" ELSE "Committed"
  /\ UNCHANGED << env, committedRows, tableExists, news, exc, result, df, backup, log, called, reqs,
                  news0, backup0, writeFailed, csvWrites, csvDay, keySeen, respStatus,
                  sleeps, slept >>

\* __main__ that catches the SystemExit of main and calls main again
main_exit_retry ==
  /\ mode = "single"
  /\ pc = "main_end"
  /\ IF exc.type = "SystemExit"
       THEN /\ pc' = "idle"
            /\ exc' = NoExc
       ELSE /\ pc' = "exit"
            /\ exc' = exc
  /\ UNCHANGED << env, committedRows, db, result, df, backup, log, hist, outcome >>

(***************************************************************************)
(* The two ways main is driven.                                            *)
(***************************************************************************)
\* lines 173-174: main() returned or raised in single-run mode
main_exit ==
  /\ mode = "single"
  /\ pc = "main_end"
  /\ pc' = "exit"
  /\ UNCHANGED << env, committedRows, db, exc, result, df, backup, log, hist, outcome >>

\* run_periodically with except Exception, which a SystemExit passes
run_periodically_except_Exception ==
  /\ mode = "loop"
  /\ pc = "main_end"
  /\ IF exc.type = "Exception"
       THEN /\ log' = Append(log, "loop_error")
            /\ exc' = NoExc
       ELSE UNCHANGED << log, exc >>
  /\ pc' = "sleep"
  /\ result' = NoResult
  /\ df' = << >>
  /\ UNCHANGED << env, committedRows, db, backup, hist, outcome >>

\* lines 166-169 of run_periodically: main() returned or raised inside the
\* try; except SystemExit catches and prints the error
run_periodically_except ==
  /\ mode = "loop"
  /\ pc = "main_end"
  /\ IF exc.type = "SystemExit"
       THEN /\ log' = Append(log, "loop_error")
            /\ exc' = NoExc
       ELSE UNCHANGED << log, exc >>
  /\ pc' = "sleep"
  /\ result' = NoResult
  /\ df' = << >>
  /\ UNCHANGED << env, committedRows, db, backup, hist, outcome >>

\* run_periodically that waits twice as long after a run that did not commit
run_periodically_finally_backoff ==
  /\ mode = "loop"
  /\ pc = "sleep"
  /\ sleeps' = sleeps + 1
  /\ slept' = slept + (IF outcome = "Committed" THEN interval_seconds
                       ELSE 2 * interval_seconds)
  /\ IF exc = NoExc
       THEN /\ pc' = "idle"
            /\ conn' = "none"
            /\ log' = << >>
            /\ reqs' = 0
            /\ called' = {}
            /\ news0' = news
            /\ backup0' = backup
            /\ writeFailed' = FALSE
            /\ csvWrites' = 0
            /\ csvDay' = 0
            /\ keySeen' = "unread"
            /\ respStatus' = 0
       ELSE /\ pc' = "exit"
            /\ UNCHANGED << conn, log, reqs, called, news0, backup0, writeFailed,
                            csvWrites, csvDay, keySeen, respStatus >>
  /\ UNCHANGED << env, committedRows, tableExists, news, txn, exc, result, df, backup, outcome >>

\* run_periodically with the sleep after the try statement, not in finally:
\* an exception that is not caught skips it
run_periodically_sleep_after_try ==
  /\ mode = "loop"
  /\ pc = "sleep"
  /\ IF exc = NoExc
       THEN /\ sleeps' = sleeps + 1
            /\ slept' = slept + interval_seconds
            /\ pc' = "idle"
            /\ conn' = "none"
            /\ log' = << >>
            /\ reqs' = 0
            /\ called' = {}
            /\ news0' = news
            /\ backup0' = backup
            /\ writeFailed' = FALSE
            /\ csvWrites' = 0
            /\ csvDay' = 0
            /\ keySeen' = "unread"
            /\ respStatus' = 0
       ELSE /\ pc' = "exit"
            /\ UNCHANGED << sleeps, slept, conn, log, reqs, called, news0, backup0,
                            writeFailed, csvWrites, csvDay, keySeen, respStatus >>
  /\ UNCHANGED << env, committedRows, tableExists, news, txn, exc, result, df, backup, outcome >>

\* lines 170-171 of run_periodically: finally: sleep(interval_seconds); then
\* the loop goes round, or the exception that was not caught goes on.  When
\* the loop goes round the iteration is over: the connection object of
\* store is gone and the record of the run is cleared.
run_periodically_finally ==
  /\ mode = "loop"
  /\ pc = "sleep"
  /\ sleeps' = sleeps + 1
  /\ slept' = slept + interval_seconds
  /\ IF exc = NoExc
       THEN /\ pc' = "idle"
            /\ conn' = "none"
            /\ log' = << >>
            /\ reqs' = 0
            /\ called' = {}
            /\ news0' = news
            /\ backup0' = backup
            /\ writeFailed' = FALSE
            /\ csvWrites' = 0
            /\ csvDay' = 0
            /\ keySeen' = "unread"
            /\ respStatus' = 0
       ELSE /\ pc' = "exit"
            /\ UNCHANGED << conn, log, reqs, called, news0, backup0, writeFailed,
                            csvWrites, csvDay, keySeen, respStatus >>
  /\ UNCHANGED << env, committedRows, tableExists, news, txn, exc, result, df, backup, outcome >>

\* midnight passes
Tick ==
  /\ pc # "exit"
  /\ today < MaxDay
  /\ today' = today + 1
  /\ UNCHANGED << mode, jsonErrIsRequestException, pc, db, exc, result, df, backup,
                  log, hist, outcome, committedRows >>

Next ==
  \/ main_call
  \/ main_fetch
  \/ main_process
  \/ store_connect
  \/ store_create
  \/ store_begin
  \/ store_to_sql
  \/ store_commit
  \/ store_except
  \/ store_finally
  \/ main_exit
  \/ run_periodically_except
  \/ run_periodically_finally
  \/ Tick

Spec == Init /\ [][Next]_vars

TypeOK ==
  /\ mode \in { "single", "loop" }
  /\ pc \in { "idle", "fetch", "process", "connect", "create", "begin", "to_sql",
              "commit", "except", "finally", "main_end", "sleep", "exit" }
  /\ conn \in { "none", "open", "closed" }
  /\ Len(news) <= MaxRows
  /\ outcome \in { "none", "Committed", "BackedUp", "Aborted", "Crashed" }
  /\ committedRows \in 0..MaxRows

(***************************************************************************)
(* Loop mode alone: run_periodically(interval_seconds) called in place of  *)
(* main().  Every statement of the program ends and gives way to the       *)
(* next, sleep included, so the steps of the program are weakly fair; the  *)
(* calendar is not.                                                        *)
(***************************************************************************)
LoopInit == Init /\ mode = "loop"

LoopStep ==
  \/ main_call
  \/ main_fetch
  \/ main_process
  \/ store_connect
  \/ store_create
  \/ store_begin
  \/ store_to_sql
  \/ store_commit
  \/ store_except
  \/ store_finally
  \/ run_periodically_except
  \/ run_periodically_finally

LoopNext == LoopStep \/ Tick

LoopSpec == LoopInit /\ [][LoopNext]_vars /\ WF_vars(LoopStep)

(***************************************************************************)
(* Properties.                                                             *)
(***************************************************************************)
\* control has left store (and main), by return or by exception
StoreLeft == pc \in { "main_end", "sleep", "idle", "exit" } /\ "store" \in called

\* C1: when the append (to_sql) or the commit of a run failed, table news
\* holds after store the rows it held when the run started: the same number
\* of rows, the same rows, and nothing is left in a transaction.
C1_RollbackRestoresStore ==
  (StoreLeft /\ writeFailed) =>
    /\ Len(news) = Len(news0)
    /\ news = news0
    /\ txn = << >>

\* a run of two rows failed in the append or the commit, over a table that
\* held rows already, and ended by the backup
C1_Witness ==
  /\ pc = "main_end"
  /\ writeFailed
  /\ outcome = "BackedUp"
  /\ Len(df) = 2
  /\ Len(news0) = 1

\* C2: a backup file is written only by a run whose to_sql or commit
\* failed: as long as neither has failed in the current run the backup files
\* are those of the start of the run, and a run that ends Committed or
\* Aborted has written none.
C2_BackupOnlyOnWriteFailure ==
  /\ ~writeFailed => (csvWrites = 0 /\ backup = backup0)
  /\ outcome \in { "Committed", "Aborted" } => (csvWrites = 0 /\ backup = backup0)

\* a run committed rows after an earlier run had written a backup file
C2_Witness ==
  /\ outcome = "Committed"
  /\ Len(df) > 0
  /\ news = news0 \o df
  /\ \E d \in Days : backup[d].exists

\* C3: when store has returned after the backup, the file named for the date of the
\* write holds the header of the ten columns and the rows of the data frame,
\* as many, in its order, each cell as the frame holds it (a missing value
\* as the empty field); the files of the other dates are untouched.
C3_BackupHoldsBatch ==
  (pc = "main_end" /\ outcome = "BackedUp") =>
    /\ csvDay \in Days
    /\ csvDay <= today
    /\ backup[csvDay].exists
    /\ backup[csvDay].header = columns
    /\ Len(backup[csvDay].rows) = Len(df)
    /\ \A i \in 1..Len(df) : \A j \in 1..NCols :
         backup[csvDay].rows[i][j] = (IF df[i][j] = Null THEN "" ELSE df[i][j])
    /\ \A d \in Days \ { csvDay } : backup[d] = backup0[d]

\* a run of two different records ended by the backup
C3_Witness ==
  /\ outcome = "BackedUp"
  /\ pc = "main_end"
  /\ Len(df) = 2
  /\ df[1] # df[2]

\* fetch has raised one of its four SystemExit and main has passed it on
FetchAborted ==
  /\ pc = "main_end"
  /\ exc.type = "SystemExit"
  /\ exc.kind \in FatalKinds

\* the loop has caught and printed the error, has slept once, and is at the
\* call of main again
BackAtMain ==
  /\ pc = "idle"
  /\ exc = NoExc
  /\ outcome = "Aborted"
  /\ sleeps = 1

\* C4: in loop mode, whenever fetch raises one of its four fatal errors
\* (configuration, transport, protocol, application), the loop catches and
\* prints it, sleeps, and is back at the call of main, which then starts the
\* next run; the process is not left on the way.
C4_LoopSurvivesFetchErrors ==
  /\ FetchAborted ~> BackAtMain
  /\ BackAtMain ~> (pc = "fetch")
  /\ [][(FetchAborted /\ pc' # pc) =>
         (pc' = "sleep" /\ exc' = NoExc /\ log' = Append(log, "loop_error"))]_vars
  /\ [][(pc = "sleep" /\ outcome = "Aborted") => pc' # "exit"]_vars

\* the loop has caught and printed the error of a run that status 429
\* aborted, and is about to sleep
C4_Witness ==
  /\ mode = "loop"
  /\ pc = "sleep"
  /\ exc = NoExc
  /\ respStatus = 429
  /\ log = << "collecting", "http_error", "loop_error" >>

\* C5: in loop mode a run that ended Committed, BackedUp or Aborted is
\* followed by exactly one sleep of interval_seconds before the loop is back
\* at the call of main, the loop is never left after such a run, and no
\* sleep happens inside a run.
C5_OneFixedSleepBetweenRuns ==
  mode = "loop" =>
    /\ (pc = "idle" /\ outcome # "none") =>
          /\ sleeps = 1
          /\ slept = interval_seconds
          /\ outcome \in { "Committed", "BackedUp", "Aborted" }
    /\ outcome \in { "Committed", "BackedUp", "Aborted" } => pc # "exit"
    /\ pc \notin { "idle", "exit" } => sleeps = 0

\* the loop is back at the call of main after a run that ended by the backup
C5_Witness ==
  /\ mode = "loop"
  /\ pc = "idle"
  /\ outcome = "BackedUp"
  /\ sleeps = 1

\* C6: a run whose credential source gave no API key issues no HTTP request
\* and receives no response; fetch raises the configuration error and the
\* run ends Aborted with fetch the only function called.
C6_NoKeyNoRequest ==
  keySeen = "unset" =>
    /\ reqs = 0
    /\ respStatus = 0
    /\ outcome = "Aborted"
    /\ called = { "fetch" }
    /\ log[1] = "no_key"
    /\ pc = "main_end" => exc = SysExit("Configuration", 0)

\* fetch has just raised for the missing key
C6_Witness ==
  /\ keySeen = "unset"
  /\ pc = "main_end"
  /\ exc = SysExit("Configuration", 0)

\* C7: once control has left store, the connection store opened is closed.
C7_ConnectionClosedOnEveryExit ==
  StoreLeft => conn # "open"

\* C8: a failed append or commit ends in a normal return of store with the
\* outcome BackedUp, and no exception leaves store.
C8_NoExceptionLeavesStore ==
  /\ (StoreLeft /\ writeFailed) => outcome = "BackedUp"
  /\ (pc = "main_end" /\ "store" \in called) => exc = NoExc

\* C9: a run in which fetch fails calls neither process nor store, opens no
\* connection, and leaves table news and the backup files as they were.
C9_FetchFailureChangesNothing ==
  /\ (pc # "idle" /\ outcome = "Aborted") =>
       /\ pc \in { "main_end", "sleep", "exit" }
       /\ called = { "fetch" }
       /\ conn = "none"
       /\ df = << >>
       /\ news = news0
       /\ txn = << >>
       /\ backup = backup0
  /\ (pc \in { "main_end", "sleep", "exit" } /\ exc.kind = "JSONDecodeError") =>
       /\ called = { "fetch" }
       /\ news = news0
       /\ backup = backup0

\* a run was aborted by status 429 over a table and a backup file that hold
\* records of earlier runs
C9_Witness ==
  /\ outcome = "Aborted"
  /\ pc = "main_end"
  /\ exc = SysExit("Protocol", 429)
  /\ Len(news) > 0
  /\ \E d \in Days : backup[d].exists

\* C10: a response with a status other than 200 makes fetch raise the
\* protocol error carrying that status, whatever the body.
C10_Non200IsProtocolError ==
  (pc = "main_end" /\ respStatus \notin { 0, HTTP_OK }) =>
    exc = SysExit("Protocol", respStatus)

(***************************************************************************)
(* C11.  Whenever fetch returns, the body it returns has the list member   *)
(* data: a body without data never reaches process.  fetch tests the       *)
(* status and the member error only (lines 116-123), so a 200 body with    *)
(* neither error nor data is returned and handed to process.               *)
(***************************************************************************)
C11_ReturnedBodyHasData ==
  pc = "process" => result.parses /\ result.hasData

\* the phase of the run the program is in: main calls fetch, process and
\* store in turn (lines 160-162); a run that has ended is in the phase its
\* end gave it
Phase ==
  CASE pc = "idle"    -> "Idle"
    [] pc = "fetch"   -> "Fetching"
    [] pc = "process" -> "Normalizing"
    [] pc \in { "connect", "create", "begin", "to_sql", "commit", "except",
                "finally" } -> "Persisting"
    [] OTHER          -> outcome

(***************************************************************************)
(* C12.  Every run goes Idle, Fetching, Normalizing, Persisting in that    *)
(* order and ends in one of Committed, BackedUp and Aborted: Aborted only  *)
(* out of Fetching, Committed and BackedUp only out of Persisting, and a   *)
(* run ends in no other way; in loop mode it is Idle again afterwards.     *)
(***************************************************************************)
C12_RunPhases ==
  [][ Phase' # Phase =>
        \/ Phase = "Idle" /\ Phase' = "Fetching"
        \/ Phase = "Fetching" /\ Phase' \in { "Normalizing", "Aborted" }
        \/ Phase = "Normalizing" /\ Phase' = "Persisting"
        \/ Phase = "Persisting" /\ Phase' \in { "Committed", "BackedUp" }
        \/ /\ Phase \in { "Committed", "BackedUp", "Aborted" }
           /\ Phase' = "Idle"
           /\ mode = "loop" ]_vars

(***************************************************************************)
(* C13.  The number of rows of news is the sum of the sizes of the data    *)
(* frames of the runs that committed, a row the table already holds        *)
(* counted again, and it never goes down: a run leaves the rows it found   *)
(* in place and a committed run adds as many rows as its data frame has.   *)
(***************************************************************************)
C13_RowCountIsSumOfCommitted ==
  /\ Len(news) = committedRows
  /\ pc # "idle" => /\ Len(news) >= Len(news0)
                    /\ SubSeq(news, 1, Len(news0)) = news0
  /\ pc = "main_end" /\ outcome = "Committed"
       => Len(news) = Len(news0) + Len(df)

\* a second committed run of one row has added the row the first one added
C13_Witness ==
  /\ pc = "main_end"
  /\ outcome = "Committed"
  /\ Len(df) = 1
  /\ Len(news0) = 1
  /\ Len(news) = 2
  /\ news[1] = news[2]

(***************************************************************************)
(* C14.  In single-run mode each of the four fatal errors of fetch leaves  *)
(* main as the SystemExit fetch raised and ends the process: nothing       *)
(* catches it, nothing was called after fetch, at most one request was     *)
(* sent, and main is not called a second time.                             *)
(***************************************************************************)
C14_FetchErrorEndsSingleRun ==
  mode = "single" =>
    /\ pc = "idle" => outcome = "none" /\ reqs = 0
    /\ outcome = "Aborted" =>
         /\ pc \in { "main_end", "exit" }
         /\ exc.type = "SystemExit"
         /\ exc.kind \in FatalKinds
         /\ exc.kind = "Configuration" <=> reqs = 0
         /\ exc.kind = "Protocol" => exc.status = respStatus /\ respStatus # HTTP_OK
         /\ called = { "fetch" }
         /\ reqs <= 1
         /\ sleeps = 0
         /\ \A i \in 1..Len(log) : log[i] # "loop_error"

\* the single run has ended with the application error of fetch
C14_Witness ==
  /\ mode = "single"
  /\ pc = "exit"
  /\ outcome = "Aborted"
  /\ exc = SysExit("Application", 0)
  /\ log = << "collecting", "api_error" >>

(***************************************************************************)
(* C15.  process turns the N records of the body into N rows in the order  *)
(* of the input, each of the ten columns of the schema in their fixed      *)
(* order: the value of a key the record has is kept, a key it lacks gives  *)
(* null, and a key outside the schema gives no cell.                       *)
(***************************************************************************)
C15_ProcessKeepsOrderAndSchema ==
  pc \in { "connect", "create", "begin", "to_sql", "commit", "except", "finally" }
    => /\ Len(df) = Len(result.data)
       /\ \A i \in 1..Len(df) :
            /\ DOMAIN df[i] = 1..10
            /\ \A c \in DOMAIN result.data[i] :
                 c \in ColSet => \E j \in 1..10 : columns[j] = c /\ df[i][j] = result.data[i][c]
            /\ \A j \in 1..10 :
                 columns[j] \notin DOMAIN result.data[i] => df[i][j] = Null
            /\ df[i][2] = result.data[i].title
            /\ df[i][6] = IF "image" \in DOMAIN result.data[i]
                             THEN result.data[i].image
                             ELSE Null

\* process has run on a record without image followed by one with all the
\* keys and one more
C15_Witness ==
  /\ pc = "connect"
  /\ Len(result.data) = 2
  /\ "image" \notin DOMAIN result.data[1]
  /\ "id" \in DOMAIN result.data[2]
  /\ df[1][6] = Null
  /\ df[2][6] = ""
  /\ df[1][2] # df[2][2]

(***************************************************************************)
(* C16.  The log of a run that committed is the four phase messages in     *)
(* order: collecting, collected, saving, saved.  The log of a run that     *)
(* fell back to the backup is collecting, collected, saving, then the      *)
(* text of the exception, the failure message and the CSV message, and it  *)
(* never holds the message of the successful save.                         *)
(***************************************************************************)
C16_LogOfARun ==
  pc \in { "main_end", "sleep", "exit" } =>
    /\ outcome = "Committed"
         => log = << "collecting", "collected", "saving", "saved" >>
    /\ outcome = "BackedUp"
         => /\ log = << "collecting", "collected", "saving",
                        "exc_text", "save_failed", "saved_csv" >>
            /\ \A i \in 1..Len(log) : log[i] # "saved"

\* a second run of the loop has fallen back to the backup and has printed
\* its six messages
C16_Witness ==
  /\ pc = "main_end"
  /\ outcome = "BackedUp"
  /\ Len(df) = 1
  /\ committedRows = 1
  /\ Len(log) = 6
  /\ log[6] = "saved_csv"

(***************************************************************************)
(* C17.  A run that reaches store never writes its data frame to both      *)
(* targets.  While store runs and after it, a run that has written a       *)
(* backup has left no row in news and a run that has added rows to news    *)
(* has written no backup; when store has returned, either the rows of the  *)
(* data frame were appended and no backup was written, or one backup was   *)
(* written and news is as the run found it.                                *)
(***************************************************************************)
C17_NeverBothTargets ==
  /\ (pc # "idle" /\ csvWrites > 0) => news = news0
  /\ (pc # "idle" /\ news # news0) => (csvWrites = 0 /\ backup = backup0)
  /\ (pc = "main_end" /\ "store" \in called /\ exc = NoExc)
       => \/ /\ outcome = "Committed"
             /\ news = news0 \o df
             /\ csvWrites = 0
             /\ backup = backup0
          \/ /\ outcome = "BackedUp"
             /\ news = news0
             /\ csvWrites = 1
             /\ backup[csvDay].exists
             /\ Len(backup[csvDay].rows) = Len(df)

\* store has returned after a commit that failed: the row of the data
\* frame is in the backup of the day and not in news
C17_Witness ==
  /\ pc = "main_end"
  /\ exc = NoExc
  /\ outcome = "BackedUp"
  /\ Len(df) = 1
  /\ news = << >>
  /\ csvWrites = 1
  /\ Len(backup[csvDay].rows) = 1

(***************************************************************************)
(* C18.  In loop mode, when main raises an exception that is not a         *)
(* SystemExit (process on a body without data, store in connect, CREATE    *)
(* TABLE, BEGIN or the backup write), except SystemExit lets it pass, the  *)
(* finally block still sleeps once for interval_seconds, and then the      *)
(* exception leaves run_periodically: the loop is at its end with that     *)
(* exception and no run starts after it.                                   *)
(***************************************************************************)
C18_CrashSleepsOnceThenEndsLoop ==
  mode = "loop" =>
    /\ outcome = "Crashed"
         => /\ pc \in { "main_end", "sleep", "exit" }
            /\ exc.type = "Exception"
            /\ \A i \in 1..Len(log) : log[i] # "loop_error"
    /\ pc = "exit"
         => /\ outcome = "Crashed"
            /\ exc.type = "Exception"
            /\ sleeps = 1
            /\ slept = interval_seconds
    /\ (pc = "sleep" /\ exc # NoExc) => (outcome = "Crashed" /\ sleeps = 0)

\* the loop has ended, after one sleep, with the KeyError of process
C18_Witness ==
  /\ mode = "loop"
  /\ pc = "exit"
  /\ exc = Other("KeyError")
  /\ called = { "fetch", "process" }
  /\ sleeps = 1
  /\ slept = interval_seconds

(***************************************************************************)
(* C19.  Two runs of the same date that both fall back to the backup       *)
(* write the file of the same name, and the later write replaces the       *)
(* earlier: after the second run the file holds the header and the rows    *)
(* of the second data frame and nothing else, the files of the other       *)
(* dates are untouched, and news holds what it held before, the rows of    *)
(* the committed runs only, so the first data frame is kept nowhere.       *)
(***************************************************************************)
C19_SameDateBackupOverwritten ==
  (pc = "main_end" /\ outcome = "BackedUp" /\ backup0[csvDay].exists) =>
    /\ backup[csvDay].exists
    /\ backup[csvDay].header = columns
    /\ Len(backup[csvDay].rows) = Len(df)
    /\ \A i \in 1..Len(df) : \A j \in 1..NCols :
         backup[csvDay].rows[i][j] = CsvField(df[i][j])
    /\ \A d \in Days \ { csvDay } : backup[d] = backup0[d]
    /\ news = news0
    /\ Len(news) = committedRows

\* a run of one row has fallen back to the backup on a date whose file held
\* the two rows of an earlier run
C19_Witness ==
  /\ pc = "main_end"
  /\ outcome = "BackedUp"
  /\ backup0[csvDay].exists
  /\ Len(backup0[csvDay].rows) = 2
  /\ Len(df) = 1
  /\ Len(backup[csvDay].rows) = 1
  /\ backup[csvDay].rows[1] # backup0[csvDay].rows[1]

====
